---- MODULE Spec2Model ----
(***************************************************************************)
(* Model of download_and_split_hsc_images (src/download_hsc_pipeline.py):  *)
(* batch selection from a URL list, per item parse / download / split /    *)
(* optional removal of the parent file, and the final catalog write.       *)
(*                                                                         *)
(* A Python str is a sequence of one-character strings, so that split,     *)
(* the version regex, int() and the f-strings are computed as the code     *)
(* computes them.  Str joins such a sequence into one string (a path).     *)
(***************************************************************************)
EXTENDS Integers, Sequences, FiniteSets, TLC

VARIABLES
    urls,               \* the stripped, non-blank lines of URL_LIST
    BATCH_START,        \* argument (NoneV or Some(n))
    BATCH_SIZE,         \* argument (NoneV or Some(n))
    remove_parent,      \* argument
    catalog_path,       \* argument (NoneV or Some(path))
    parent_file_only,   \* argument
    parent_output_dir,  \* argument (NoneV or Some(dir))
    pc,                 \* position of the single flow of control
    batch,              \* the selected slice of urls
    i,                  \* 1-based index in batch of the item of the main loop
    snapshot,           \* local of the main loop, from parse_url
    subhalo,            \* local of the main loop, from parse_url
    version,            \* local of the main loop, from parse_url
    catalog_entries,    \* NoneV or Some(sequence of rows)
    dirs,               \* directories that exist
    fs,                 \* files on disk: path -> content (a sequence of EXTNAMEs)
    requested,          \* the requests.get calls in order: [item, ok]
    catalog_file,       \* NoneV or Some(table) stored at catalog_path
    catalog_writes,     \* number of table.write calls
    item_state,         \* per batch item: its position in the item state machine
    writes,             \* per batch item: the paths it wrote
    remove_calls        \* the os.remove calls: [item, ok]

vars == <<urls, BATCH_START, BATCH_SIZE, remove_parent, catalog_path,
          parent_file_only, parent_output_dir, pc, batch, i, snapshot,
          subhalo, version, catalog_entries, dirs, fs, requested, catalog_file, catalog_writes, item_state,
          writes, remove_calls>>

locals == <<snapshot, subhalo, version>>

args == <<urls, BATCH_START, BATCH_SIZE, remove_parent, catalog_path,
          parent_file_only, parent_output_dir>>

-----------------------------------------------------------------------------
(* Bounds of the model *)

MaxUrls == 2         \* longest URL list of a pipeline run
MaxStart == 1        \* largest BATCH_START of a pipeline run
MaxSize == 1         \* largest BATCH_SIZE of a pipeline run
MaxListLen == 3      \* longest URL list of the batch selection inputs
MaxListStart == 4    \* largest BATCH_START of the batch selection inputs
MaxListSize == 3     \* largest BATCH_SIZE of the batch selection inputs
MaxSnapshot == 3     \* largest snapshot number of the object-id inputs

-----------------------------------------------------------------------------
(* Python values *)

NoneV == [some |-> FALSE]
Some(x) == [some |-> TRUE, val |-> x]
IsNone(o) == ~o.some

Min(S) == CHOOSE x \in S : \A y \in S : x <= y
Max(S) == CHOOSE x \in S : \A y \in S : x >= y

Digit == {"0", "1", "2", "3", "4", "5", "6", "7", "8", "9"}

DigitVal(c) ==
    CASE c = "0" -> 0 [] c = "1" -> 1 [] c = "2" -> 2 [] c = "3" -> 3
      [] c = "4" -> 4 [] c = "5" -> 5 [] c = "6" -> 6 [] c = "7" -> 7
      [] c = "8" -> 8 [] c = "9" -> 9

DigitChar(d) ==
    CASE d = 0 -> "0" [] d = 1 -> "1" [] d = 2 -> "2" [] d = 3 -> "3"
      [] d = 4 -> "4" [] d = 5 -> "5" [] d = 6 -> "6" [] d = 7 -> "7"
      [] d = 8 -> "8" [] d = 9 -> "9"

RECURSIVE Str(_)
Str(cs) == IF cs = <<>> THEN "" ELSE Head(cs) \o Str(Tail(cs))

\* int(s) for a string of decimal digits
RECURSIVE PyInt(_)
PyInt(cs) ==
    IF cs = <<>> THEN 0
    ELSE PyInt(SubSeq(cs, 1, Len(cs) - 1)) * 10 + DigitVal(cs[Len(cs)])

\* str(n) for n >= 0
RECURSIVE PyStr(_)
PyStr(n) ==
    IF n < 10 THEN <<DigitChar(n)>>
    ELSE Append(PyStr(n \div 10), DigitChar(n % 10))

\* s[lo:hi] with Python's clamping of the two indices (hi = NoneV: to the end)
PySlice(s, lo, hi) ==
    LET n == Len(s)
        clamp(k) == IF k < 0 THEN Max({k + n, 0}) ELSE Min({k, n})
        a == clamp(lo)
        b == IF IsNone(hi) THEN n ELSE clamp(hi.val)
    IN  IF b <= a THEN <<>> ELSE SubSeq(s, a + 1, b)

-----------------------------------------------------------------------------
(* Strings of the program and of its inputs *)

SLASH == "/"

\* u.split('/')
RECURSIVE Split(_)
Split(cs) ==
    IF \A k \in 1..Len(cs) : cs[k] # SLASH THEN <<cs>>
    ELSE LET p == Min({k \in 1..Len(cs) : cs[k] = SLASH})
         IN  <<SubSeq(cs, 1, p - 1)>> \o Split(SubSeq(cs, p + 1, Len(cs)))

\* '/'.join(parts)
RECURSIVE Join(_)
Join(parts) ==
    IF Len(parts) = 1 THEN parts[1]
    ELSE parts[1] \o <<SLASH>> \o Join(Tail(parts))

Sim50 == <<"T", "N", "G", "5", "0", "-", "1">>
Sim100 == <<"T", "N", "G", "1", "0", "0", "-", "1">>
FnV2 ==
    <<"s","k","i","r","t","_","i","m","a","g","e","s","_","h",
    "s","c","_","r","e","a","l","i","s","t","i","c","_","v",
    "2",".","f","i","t","s">>
FnV10 ==
    <<"s","k","i","r","t","_","i","m","a","g","e","s","_","h",
    "s","c","_","r","e","a","l","i","s","t","i","c","_","v",
    "1","0",".","f","i","t","s">>
FnNoVersion ==
    <<"s","k","i","r","t","_","i","m","a","g","e","s","_","h",
    "s","c","_","r","e","a","l","i","s","t","i","c",".","f",
    "i","t","s">>

\* a locator of the archive: .../api/<sim>/snapshots/<snapshot>/subhalos/<subhalo>/skirt/<fn>
MakeUrl(sim, sn, sh, fn) ==
    Join(<<<<"h", "t", "t", "p", "s", ":">>,
           <<>>,
           <<"w", "w", "w", ".", "t", "n", "g", "-", "p", "r", "o", "j",
             "e", "c", "t", ".", "o", "r", "g">>,
           <<"a", "p", "i">>,
           sim,
           <<"s", "n", "a", "p", "s", "h", "o", "t", "s">>,
           sn,
           <<"s", "u", "b", "h", "a", "l", "o", "s">>,
           sh,
           <<"s", "k", "i", "r", "t">>,
           fn>>)

UrlA == MakeUrl(Sim50, PyStr(72), PyStr(0), FnV2)
UrlB == MakeUrl(Sim100, PyStr(72), PyStr(0), FnV2)
UrlC == MakeUrl(Sim50, PyStr(72), PyStr(1), FnV2)
UrlD == MakeUrl(Sim50, PyStr(91), PyStr(1), FnNoVersion)

UrlUniverse == {UrlA, UrlB, UrlC, UrlD}

-----------------------------------------------------------------------------
(* The remote archive and the local storage *)

\* The container the archive serves at a locator, as the EXTNAMEs of its HDUs
\* ("" for an HDU without EXTNAME, such as the primary HDU).
Archive(url) ==
    CASE url = UrlB -> <<"", "SUBARU_HSC.Y", "SUBARU_HSC.G", "SUBARU_HSC.G">>
      [] url = UrlC -> <<"", "SUBARU_HSC.I">>
      [] url = UrlD -> <<"", "CFHT_MEGACAM.U">>
      [] OTHER -> <<"", "SUBARU_HSC.G", "SUBARU_HSC.R", "SUBARU_HSC.I",
                    "SUBARU_HSC.Z", "SUBARU_HSC.Y">>

split_output_dir == "split_images"

\* os.path.join(d, name)
PathJoin(d, name) == d \o "/" \o name

\* the file system with path p (over)written with content c
WriteFile(f, p, c) == [q \in DOMAIN f \cup {p} |-> IF q = p THEN c ELSE f[q]]

\* the file system without path p
RemoveFile(f, p) == [q \in DOMAIN f \ {p} |-> f[q]]

-----------------------------------------------------------------------------
(* download_and_split_hsc_images *)

Truthy(o) == o.some /\ o.val # ""

parent_dir == IF Truthy(parent_output_dir) THEN parent_output_dir.val
              ELSE split_output_dir

\* the slice with BATCH_SIZE taken as the end index instead of a length
SelectBatch_EndIndex(u, start, size) ==
    LET s == IF IsNone(start) THEN 0 ELSE start.val
    IN  IF IsNone(size) THEN PySlice(u, s, NoneV)
        ELSE PySlice(u, s, Some(size.val))

\* urls[BATCH_START:] or urls[BATCH_START : BATCH_START + BATCH_SIZE]
SelectBatch(u, start, size) ==
    LET s == IF IsNone(start) THEN 0 ELSE start.val
    IN  IF IsNone(size) THEN PySlice(u, s, NoneV)
        ELSE PySlice(u, s, Some(s + size.val))

\* re.search(r'(v\d+)', fn): the leftmost 'v' followed by a digit, with all
\* the digits that follow it; 'v?' when there is none
Version(fn) ==
    LET starts == {k \in 1..(Len(fn) - 1) : fn[k] = "v" /\ fn[k + 1] \in Digit}
    IN  IF starts = {} THEN <<"v", "?">>
        ELSE LET a == Min(starts)
                 b == Max({k \in (a + 1)..Len(fn) :
                              \A j \in (a + 1)..k : fn[j] \in Digit})
             IN  SubSeq(fn, a, b)

parse_url(u) ==
    LET parts == Split(u)
    IN  [snapshot |-> parts[7], subhalo |-> parts[9],
         version |-> Version(parts[Len(parts)])]

\* the locators of the one-item runs over snapshot and subhalo numbers
SubhaloSamples == {0, 1, 7, 99999, 100000, 999998, 999999}

ObjIdUrls ==
    {MakeUrl(Sim50, PyStr(sn), PyStr(sh), FnV10) :
        sn \in 0..MaxSnapshot, sh \in SubhaloSamples}

\* parse_url over the locators of the model, evaluated once
ParsedUrls == [u \in UrlUniverse \cup ObjIdUrls |-> parse_url(u)]

\* f'{snapshot}_{subhalo}_{version}_parent.fits'
fname_parent(sn, sh, v) ==
    Str(sn) \o "_" \o Str(sh) \o "_" \o Str(v) \o "_parent.fits"

parent_path == PathJoin(parent_dir, fname_parent(snapshot, subhalo, version))

BANDS == <<"G", "R", "I", "Z", "Y">>

target_ext(filt) == "SUBARU_HSC." \o filt

\* next((h for h in hdul if EXTNAME == target_ext), None): found or not
HasExt(hdul, filt) == \E k \in 1..Len(hdul) : hdul[k] = target_ext(filt)

\* a split name that leaves the subhalo out
out_name_NoSubhalo(sn, sh, filt, v) ==
    Str(sn) \o "_" \o filt \o "_" \o Str(v) \o "_hsc_realistic.fits"

\* f'{snapshot}_{subhalo}_{filt}_{version}_hsc_realistic.fits'
out_name(sn, sh, filt, v) ==
    Str(sn) \o "_" \o Str(sh) \o "_" \o filt \o "_" \o Str(v)
        \o "_hsc_realistic.fits"

out_path(sn, sh, filt, v) == PathJoin(split_output_dir, out_name(sn, sh, filt, v))

OBJ_ID_FACTOR == 1000000

\* the object id with a subhalo field of five digits
obj_id_FiveDigits(sn, sh) == PyInt(sn) * 100000 + PyInt(sh)

\* int(snapshot) * 1000000 + int(subhalo)
obj_id(sn, sh) == PyInt(sn) * OBJ_ID_FACTOR + PyInt(sh)

\* the dict of lines 207-211
CatalogEntry(sn, sh, filt, v) ==
    [object_id |-> obj_id(sn, sh),
     filename |-> out_name(sn, sh, filt, v),
     filter |-> filt]

\* an append that keeps one row per distinct entry
AppendEntry_Dedup(entries, e) ==
    IF entries.some /\ \A k \in 1..Len(entries.val) : entries.val[k] # e
    THEN Some(Append(entries.val, e))
    ELSE entries

\* catalog_entries.append(e) when catalog_entries is not None
AppendEntry(entries, e) ==
    IF entries.some THEN Some(Append(entries.val, e)) ELSE entries

\* the loop over the bands (lines 189-211) from band number b on, on the
\* state st = [fs, entries, written]
RECURSIVE SplitBands(_, _, _)
SplitBands(hdul, b, st) ==
    IF b > Len(BANDS) THEN st
    ELSE LET filt == BANDS[b]
             path == out_path(snapshot, subhalo, filt, version)
         IN  IF ~HasExt(hdul, filt) THEN SplitBands(hdul, b + 1, st)
             ELSE SplitBands(hdul, b + 1,
                    [fs |-> WriteFile(st.fs, path, <<target_ext(filt)>>),
                     entries |-> AppendEntry(st.entries,
                         CatalogEntry(snapshot, subhalo, filt, version)),
                     written |-> st.written \cup {path}])

\* the column names in another order
COLUMN_NAMES_Reordered == <<"filename", "object_id", "filter">>

\* names=['object_id', 'filename', 'filter']
COLUMN_NAMES == <<"object_id", "filename", "filter">>

\* Table(rows=entries, names=COLUMN_NAMES)
Table(entries) ==
    [names |-> COLUMN_NAMES,
     rows |-> [k \in 1..Len(entries) |->
                  [c \in 1..Len(COLUMN_NAMES) |-> entries[k][COLUMN_NAMES[c]]]]]

\* the function without the early return of lines 156-158
NotBatch_NoReturn(b) == FALSE

\* line 156: not batch
NotBatch(b) == b = <<>>

\* lines 138-160, and the entry of the loop of line 173
Setup ==
    /\ pc = "start"
    /\ dirs' = dirs \cup {parent_dir}
                    \cup (IF ~parent_file_only THEN {split_output_dir} ELSE {})
    /\ batch' = SelectBatch(urls, BATCH_START, BATCH_SIZE)
    /\ item_state' = [k \in 1..Len(batch') |-> "PENDING"]
    /\ writes' = [k \in 1..Len(batch') |-> {}]
    /\ IF NotBatch(batch')
       THEN /\ pc' = "done"
            /\ UNCHANGED <<i, catalog_entries>>
       ELSE /\ catalog_entries' = IF Truthy(catalog_path) THEN Some(<<>>) ELSE NoneV
            /\ IF Len(batch') > 0 THEN i' = 1 /\ pc' = "parse"
               ELSE i' = i /\ pc' = "catalog"
    /\ UNCHANGED <<args, locals, fs, requested, catalog_file, catalog_writes,
                   remove_calls>>

\* lines 173-179
ParseUrl ==
    /\ pc = "parse"
    /\ snapshot' = ParsedUrls[batch[i]].snapshot
    /\ subhalo' = ParsedUrls[batch[i]].subhalo
    /\ version' = ParsedUrls[batch[i]].version
    /\ item_state' = [item_state EXCEPT ![i] = "PARSED"]
    /\ pc' = "download"
    /\ UNCHANGED <<args, batch, i, catalog_entries, dirs, fs, requested,
                   catalog_file, catalog_writes, writes, remove_calls>>

\* lines 180-184, the response status being a success
Download ==
    /\ pc = "download"
    /\ requested' = Append(requested, [item |-> i, ok |-> TRUE])
    /\ fs' = WriteFile(fs, parent_path, Archive(batch[i]))
    /\ writes' = [writes EXCEPT ![i] = @ \cup {parent_path}]
    /\ item_state' = [item_state EXCEPT ![i] = "DOWNLOADED"]
    /\ pc' = "split"
    /\ UNCHANGED <<args, locals, batch, i, catalog_entries, dirs, catalog_file,
                   catalog_writes, remove_calls>>

\* a failed download that is skipped instead of raised
DownloadFails_Skip ==
    /\ pc = "download"
    /\ requested' = Append(requested, [item |-> i, ok |-> FALSE])
    /\ IF i < Len(batch) THEN i' = i + 1 /\ pc' = "parse"
       ELSE i' = i /\ pc' = "catalog"
    /\ UNCHANGED <<args, locals, batch, catalog_entries, dirs, fs, catalog_file,
                   catalog_writes, item_state, writes, remove_calls>>

\* a failed download whose handler stores the rows accumulated so far
DownloadFails_WritesCatalog ==
    /\ pc = "download"
    /\ requested' = Append(requested, [item |-> i, ok |-> FALSE])
    /\ IF catalog_entries.some /\ ~parent_file_only
       THEN /\ catalog_file' = Some(Table(catalog_entries.val))
            /\ catalog_writes' = catalog_writes + 1
       ELSE UNCHANGED <<catalog_file, catalog_writes>>
    /\ pc' = "raised"
    /\ UNCHANGED <<args, locals, batch, i, catalog_entries, dirs, fs,
                   item_state, writes, remove_calls>>

\* lines 180-181, raise_for_status raising
DownloadFails ==
    /\ pc = "download"
    /\ requested' = Append(requested, [item |-> i, ok |-> FALSE])
    /\ pc' = "raised"
    /\ UNCHANGED <<args, locals, batch, i, catalog_entries, dirs, fs, catalog_file,
                   catalog_writes, item_state, writes, remove_calls>>

\* lines 186-211
Split_ ==
    /\ pc = "split"
    /\ ~parent_file_only
    /\ LET st == SplitBands(fs[parent_path], 1,
                            [fs |-> fs, entries |-> catalog_entries,
                             written |-> writes[i]])
       IN  /\ fs' = st.fs
           /\ catalog_entries' = st.entries
           /\ writes' = [writes EXCEPT ![i] = st.written]
    /\ item_state' = [item_state EXCEPT ![i] = "SPLIT"]
    /\ pc' = "cleanup"
    /\ UNCHANGED <<args, locals, batch, i, dirs, requested, catalog_file,
                   catalog_writes, remove_calls>>

\* line 186, parent_file_only
SkipSplit ==
    /\ pc = "split"
    /\ parent_file_only
    /\ item_state' = [item_state EXCEPT ![i] = "SKIPPED"]
    /\ pc' = "cleanup"
    /\ UNCHANGED <<args, locals, batch, i, catalog_entries, dirs, fs, requested,
                   catalog_file, catalog_writes, writes, remove_calls>>

\* line 173: the next item of the loop, or the end of the loop
NextItem ==
    IF i < Len(batch) THEN i' = i + 1 /\ pc' = "parse"
    ELSE i' = i /\ pc' = "catalog"

\* a removal that is not confined to the runs that split
ShouldRemove_AlsoParentOnly == remove_parent

\* lines 186 and 214: os.remove is called
ShouldRemove == ~parent_file_only /\ remove_parent

\* lines 214-217
RemoveParent ==
    /\ pc = "cleanup"
    /\ ShouldRemove
    /\ fs' = RemoveFile(fs, parent_path)
    /\ remove_calls' = remove_calls \cup {[item |-> i, ok |-> TRUE]}
    /\ item_state' = [item_state EXCEPT ![i] = "CLEANED"]
    /\ NextItem
    /\ UNCHANGED <<args, locals, batch, catalog_entries, dirs, requested,
                   catalog_file, catalog_writes, writes>>

\* an OSError of os.remove that is not caught
RemoveParentFails_Raises ==
    /\ pc = "cleanup"
    /\ ShouldRemove
    /\ remove_calls' = remove_calls \cup {[item |-> i, ok |-> FALSE]}
    /\ pc' = "raised"
    /\ UNCHANGED <<args, locals, batch, i, catalog_entries, dirs, fs, requested,
                   catalog_file, catalog_writes, item_state, writes>>

\* lines 214-219, os.remove raising OSError
RemoveParentFails ==
    /\ pc = "cleanup"
    /\ ShouldRemove
    /\ remove_calls' = remove_calls \cup {[item |-> i, ok |-> FALSE]}
    /\ item_state' = [item_state EXCEPT ![i] = "KEPT"]
    /\ NextItem
    /\ UNCHANGED <<args, locals, batch, catalog_entries, dirs, fs, requested,
                   catalog_file, catalog_writes, writes>>

\* lines 186 and 214: nothing to remove
KeepParent ==
    /\ pc = "cleanup"
    /\ ~ShouldRemove
    /\ item_state' = [item_state EXCEPT ![i] = "KEPT"]
    /\ NextItem
    /\ UNCHANGED <<args, locals, batch, catalog_entries, dirs, fs, requested,
                   catalog_file, catalog_writes, writes, remove_calls>>

\* a write that is skipped when no entry was accumulated
ShouldWriteCatalog_NonEmpty ==
    catalog_entries.some /\ catalog_entries.val # <<>> /\ ~parent_file_only

\* line 224
ShouldWriteCatalog == catalog_entries.some /\ ~parent_file_only

\* lines 224-227
WriteCatalog ==
    /\ pc = "catalog"
    /\ ShouldWriteCatalog
    /\ catalog_file' = Some(Table(catalog_entries.val))
    /\ catalog_writes' = catalog_writes + 1
    /\ pc' = "done"
    /\ UNCHANGED <<args, locals, batch, i, catalog_entries, dirs, fs, requested,
                   item_state, writes, remove_calls>>

\* line 224: no catalog to write
NoCatalog ==
    /\ pc = "catalog"
    /\ ~ShouldWriteCatalog
    /\ pc' = "done"
    /\ UNCHANGED <<args, locals, batch, i, catalog_entries, dirs, fs, requested,
                   catalog_file, catalog_writes, item_state, writes, remove_calls>>

-----------------------------------------------------------------------------
(* Specifications *)

RECURSIVE SeqsUpTo(_, _)
SeqsUpTo(S, n) ==
    IF n = 0 THEN {<<>>}
    ELSE LET shorter == SeqsUpTo(S, n - 1)
         IN  shorter \cup {Append(s, x) : s \in shorter, x \in S}

Starts == {NoneV} \cup {Some(n) : n \in 0..MaxStart}
Sizes == {NoneV} \cup {Some(n) : n \in 0..MaxSize}
CatalogPaths == {NoneV, Some("catalog.fits")}
ParentDirs == {NoneV, Some("parents")}

\* the state of a call, its arguments apart
InitRun ==
    /\ pc = "start"
    /\ batch = <<>>
    /\ i = 0
    /\ snapshot = <<>>
    /\ subhalo = <<>>
    /\ version = <<>>
    /\ catalog_entries = NoneV
    /\ dirs = {}
    /\ fs = <<>>
    /\ requested = <<>>
    /\ catalog_file = NoneV
    /\ catalog_writes = 0
    /\ item_state = <<>>
    /\ writes = <<>>
    /\ remove_calls = {}

Init ==
    /\ urls \in SeqsUpTo(UrlUniverse, MaxUrls)
    /\ BATCH_START \in Starts
    /\ BATCH_SIZE \in Sizes
    /\ remove_parent \in BOOLEAN
    /\ catalog_path \in CatalogPaths
    /\ parent_file_only \in BOOLEAN
    /\ parent_output_dir \in ParentDirs
    /\ InitRun

Next ==
    \/ Setup
    \/ ParseUrl
    \/ Download
    \/ DownloadFails
    \/ Split_
    \/ SkipSplit
    \/ RemoveParent
    \/ RemoveParentFails
    \/ KeepParent
    \/ WriteCatalog
    \/ NoCatalog

Spec == Init /\ [][Next]_vars

\* Whole-list runs.  The call is one sequential flow of control: it keeps
\* running until it returns or raises.
FairUrls == {UrlB, UrlD}

InitFair ==
    /\ urls \in SeqsUpTo(FairUrls, MaxUrls)
    /\ BATCH_START = NoneV
    /\ BATCH_SIZE = NoneV
    /\ remove_parent \in BOOLEAN
    /\ catalog_path \in CatalogPaths
    /\ parent_file_only \in BOOLEAN
    /\ parent_output_dir = NoneV
    /\ InitRun

FairSpec == InitFair /\ [][Next]_vars /\ WF_vars(Next)

\* Batch selection alone, over a wider range of lists and windows
ListStarts == {NoneV} \cup {Some(n) : n \in 0..MaxListStart}
ListSizes == {NoneV} \cup {Some(n) : n \in 0..MaxListSize}

InitBatch ==
    /\ urls \in SeqsUpTo(UrlUniverse, MaxListLen)
    /\ BATCH_START \in ListStarts
    /\ BATCH_SIZE \in ListSizes
    /\ remove_parent = FALSE
    /\ catalog_path = NoneV
    /\ parent_file_only = FALSE
    /\ parent_output_dir = NoneV
    /\ InitRun

NextBatch == Setup

SpecBatch == InitBatch /\ [][NextBatch]_vars

\* One-item runs over a range of snapshot and subhalo numbers
InitObjId ==
    /\ \E u \in ObjIdUrls : urls = <<u>>
    /\ BATCH_START = NoneV
    /\ BATCH_SIZE = NoneV
    /\ remove_parent \in BOOLEAN
    /\ catalog_path \in CatalogPaths
    /\ parent_file_only \in BOOLEAN
    /\ parent_output_dir = NoneV
    /\ InitRun

SpecObjId == InitObjId /\ [][Next]_vars

-----------------------------------------------------------------------------
(* Properties *)

Terminal == {"CLEANED", "KEPT"}

StartIndex == IF IsNone(BATCH_START) THEN 0 ELSE BATCH_START.val

\* max(0, min(BATCH_SIZE or infinity, total - BATCH_START)) when
\* BATCH_START < total, and 0 otherwise
SelectedLength ==
    LET total == Len(urls)
        rest == total - StartIndex
        m == IF IsNone(BATCH_SIZE) THEN rest ELSE Min({BATCH_SIZE.val, rest})
    IN  IF StartIndex < total THEN Max({0, m}) ELSE 0

\* C1: once the batch is selected, it is the contiguous sub-sequence of the
\* URL list that starts at index BATCH_START, and its length is
\* max(0, min(BATCH_SIZE or infinity, total - BATCH_START)) when
\* BATCH_START < total and 0 otherwise (BATCH_SIZE = None: to the end).
C1_BatchSelection ==
    pc # "start" =>
        /\ Len(batch) = SelectedLength
        /\ \A k \in 1..Len(batch) : batch[k] = urls[StartIndex + k]

\* C1 witness: 3 URLs with start 1 and size 1 select exactly the second URL
C1_Witness ==
    /\ pc # "start"
    /\ urls = <<UrlA, UrlC, UrlD>>
    /\ BATCH_START = Some(1)
    /\ BATCH_SIZE = Some(1)
    /\ batch = <<UrlC>>

\* C2: a call whose selected batch is empty ends by returning, without an
\* error, and with no effect other than the output directories existing: no
\* request issued, no file written, no catalog accumulated or written.
C2_EmptyBatchNoEffects ==
    (pc # "start" /\ batch = <<>>) =>
        /\ pc = "done"
        /\ requested = <<>>
        /\ DOMAIN fs = {}
        /\ remove_calls = {}
        /\ catalog_entries = NoneV
        /\ catalog_file = NoneV
        /\ catalog_writes = 0
        /\ dirs \subseteq {parent_dir, split_output_dir}
        /\ ~ENABLED Next

\* C2 witness: an out-of-range BATCH_START on a non-empty list, with a
\* catalog requested, has returned
C2_Witness ==
    /\ pc = "done"
    /\ batch = <<>>
    /\ urls # <<>>
    /\ BATCH_START.some /\ BATCH_START.val >= Len(urls)
    /\ Truthy(catalog_path)
    /\ ~parent_file_only
    /\ dirs # {}

\* C3: a failed download is the last request of the call: the error is
\* raised at once, the item is requested once and not passed over, and no
\* later item is parsed, downloaded, split or cleaned up.
C3_AbortAtFirstFailure ==
    /\ \A n \in 1..Len(requested) : requested[n].item = n
    /\ \A n \in 1..Len(requested) :
          ~requested[n].ok =>
             /\ n = Len(requested)
             /\ pc = "raised"
             /\ i = n
             /\ item_state[n] = "PARSED"
             /\ writes[n] = {}
             /\ \A k \in (n + 1)..Len(batch) :
                   /\ item_state[k] = "PENDING"
                   /\ writes[k] = {}
                   /\ \A c \in remove_calls : c.item # k
             /\ catalog_writes = 0
             /\ ~ENABLED Next
    /\ pc = "raised" => (requested # <<>> /\ ~requested[Len(requested)].ok)

\* C3 witness: the download of the first of two items has failed
C3_Witness ==
    /\ pc = "raised"
    /\ Len(batch) = 2
    /\ requested = <<[item |-> 1, ok |-> FALSE]>>
    /\ item_state[2] = "PENDING"

\* the items whose splitting has been performed
SplitItems ==
    {k \in DOMAIN item_state : item_state[k] \in {"SPLIT", "CLEANED", "KEPT"}}

\* the container of batch item k has an extension named for band number b
Found(k, b) ==
    \E h \in 1..Len(Archive(batch[k])) :
        Archive(batch[k])[h] = "SUBARU_HSC." \o BANDS[b]

\* the (item, band) pairs with a matching extension among the first n items:
\* items in batch order, bands in the order G, R, I, Z, Y within an item
RECURSIVE FoundPairs(_)
FoundPairs(n) ==
    IF n = 0 THEN <<>>
    ELSE LET IsFound(p) == Found(p[1], p[2])
         IN  FoundPairs(n - 1)
                 \o SelectSeq([b \in 1..Len(BANDS) |-> <<n, b>>], IsFound)

\* the catalog entry of an (item, band) pair
EntryOf(p) ==
    LET u == ParsedUrls[batch[p[1]]]
    IN  CatalogEntry(u.snapshot, u.subhalo, BANDS[p[2]], u.version)

\* C4: when splitting is performed and a catalog is accumulated, the
\* accumulated catalog is exactly the sequence of the (item, band) pairs with
\* a matching extension, items in batch order and bands in the order G, R,
\* I, Z, Y, neither sorted nor deduplicated; the table written has one row
\* for each such pair of the batch.
C4_CatalogIsFoundPairs ==
    (pc # "start" /\ ~parent_file_only /\ catalog_entries.some) =>
        /\ LET pairs == FoundPairs(Cardinality(SplitItems))
           IN  /\ Len(catalog_entries.val) = Len(pairs)
               /\ \A k \in 1..Len(pairs) :
                     catalog_entries.val[k] = EntryOf(pairs[k])
        /\ catalog_file.some =>
              Len(catalog_file.val.rows) = Len(FoundPairs(Len(batch)))

\* C4 witness: the same locator listed twice gives its rows twice, each time
\* G before Y although the container stores Y first
C4_Witness ==
    /\ pc = "done"
    /\ batch = <<UrlB, UrlB>>
    /\ catalog_file.some
    /\ Len(catalog_file.val.rows) = 4
    /\ catalog_file.val.rows[1][3] = "G"
    /\ catalog_file.val.rows[2][3] = "Y"
    /\ catalog_file.val.rows[3] = catalog_file.val.rows[1]

\* C5 as claimed: the table written has the columns object_id, filename,
\* band, in this order, and every accumulated entry has exactly the fields
\* object_id, filename and band.
C5_ColumnsBand ==
    /\ catalog_file.some =>
          catalog_file.val.names = <<"object_id", "filename", "band">>
    /\ catalog_entries.some =>
          \A k \in 1..Len(catalog_entries.val) :
             DOMAIN catalog_entries.val[k] = {"object_id", "filename", "band"}

\* C5 amended: the table written has exactly three columns, named object_id,
\* filename, filter in this order, every accumulated entry has exactly the
\* fields object_id, filename and filter, and every row holds the entry's
\* values in the order of the columns.
C5_ColumnsFilter ==
    /\ catalog_file.some =>
          /\ catalog_file.val.names = <<"object_id", "filename", "filter">>
          /\ Len(catalog_file.val.rows) = Len(catalog_entries.val)
          /\ \A k \in 1..Len(catalog_file.val.rows) :
                LET e == catalog_entries.val[k]
                IN  catalog_file.val.rows[k] = <<e.object_id, e.filename, e.filter>>
    /\ catalog_entries.some =>
          \A k \in 1..Len(catalog_entries.val) :
             DOMAIN catalog_entries.val[k] = {"object_id", "filename", "filter"}

\* C5 witness: a table with at least one row has been written
C5_Witness ==
    /\ catalog_file.some
    /\ catalog_file.val.rows # <<>>
    /\ catalog_file.val.rows[1] = <<72000000, "72_0_G_v2_hsc_realistic.fits", "G">>

\* C6: for snapshot >= 0 and subhalo in 0..999999 the object id of a catalog
\* entry decodes to the pair it was computed from (object_id \div 1000000 is
\* the snapshot, object_id % 1000000 the subhalo), and no other pair of that
\* range has the same object id.
C6_ObjectIdInvertible ==
    (catalog_entries.some /\ urls # <<>>) =>
        \A k \in 1..Len(catalog_entries.val) :
           LET u == ParsedUrls[urls[1]]
               sn == PyInt(u.snapshot)
               sh == PyInt(u.subhalo)
               id == catalog_entries.val[k].object_id
           IN  (sn >= 0 /\ sh \in 0..999999) =>
                  /\ id \div 1000000 = sn
                  /\ id % 1000000 = sh
                  /\ \A sn2 \in 0..MaxSnapshot, sh2 \in SubhaloSamples :
                        (sh2 \in 0..999999 /\ <<sn2, sh2>> # <<sn, sh>>) =>
                            obj_id(PyStr(sn2), PyStr(sh2)) # id

\* C6 witness: an entry for snapshot 3 and the largest subhalo, 999999
C6_Witness ==
    /\ catalog_entries.some
    /\ catalog_entries.val # <<>>
    /\ catalog_entries.val[1].object_id = 3999999
    /\ PyInt(ParsedUrls[urls[1]].subhalo) = 999999

\* the parent path of batch item k
ParentPathOf(k) ==
    LET u == ParsedUrls[batch[k]]
    IN  PathJoin(parent_dir, fname_parent(u.snapshot, u.subhalo, u.version))

\* C7: when an item whose download succeeded completes, os.remove has been
\* called for it exactly if remove_parent is true and parent_file_only is
\* false, whatever number of bands was extracted, and only after its
\* splitting; its parent file is then absent exactly if that call did not
\* fail.  With remove_parent false or parent_file_only true every downloaded
\* parent file is still present, also at the end of the run.
C7_CleanupPolicy ==
    /\ [][\A k \in DOMAIN item_state :
            (item_state[k] \notin Terminal /\ item_state'[k] \in Terminal) =>
               /\ item_state[k] \in {"SPLIT", "SKIPPED"}
               /\ (\E c \in remove_calls' : c.item = k)
                     <=> (remove_parent /\ ~parent_file_only)
               /\ (\E c \in remove_calls' : c.item = k) => item_state[k] = "SPLIT"
               /\ (ParentPathOf(k) \notin DOMAIN fs')
                     <=> (/\ remove_parent
                          /\ ~parent_file_only
                          /\ [item |-> k, ok |-> TRUE] \in remove_calls')
               /\ (item_state'[k] = "CLEANED")
                     <=> (ParentPathOf(k) \notin DOMAIN fs')]_vars
    /\ []((~remove_parent \/ parent_file_only) =>
             /\ remove_calls = {}
             /\ \A k \in DOMAIN item_state :
                   item_state[k] \in {"DOWNLOADED", "SPLIT", "SKIPPED"} \cup Terminal
                      => ParentPathOf(k) \in DOMAIN fs)

\* C7 witness: a container without any of the five bands was split and its
\* parent file removed
C7_Witness ==
    /\ batch = <<UrlD>>
    /\ item_state = <<"CLEANED">>
    /\ catalog_entries = Some(<<>>)
    /\ writes[1] = {ParentPathOf(1)}
    /\ ParentPathOf(1) \notin DOMAIN fs

\* C8: a call with a non-empty batch that runs to its end has written the
\* catalog table exactly once if a catalog path was given and
\* parent_file_only is false, and not at all otherwise; the write comes after
\* the last item, and it happens also when no entry was accumulated.
C8_CatalogWrittenOnce ==
    /\ catalog_writes <= 1
    /\ catalog_writes = 0 <=> catalog_file = NoneV
    /\ catalog_writes = 1 =>
          /\ pc = "done"
          /\ \A k \in DOMAIN item_state : item_state[k] \in Terminal
          /\ catalog_file = Some(Table(catalog_entries.val))
    /\ (pc = "done" /\ batch # <<>>) =>
          (catalog_writes = 1 <=> (Truthy(catalog_path) /\ ~parent_file_only))

\* C8 witness: the table was written without any row
C8_Witness ==
    /\ pc = "done"
    /\ batch # <<>>
    /\ ~parent_file_only
    /\ catalog_writes = 1
    /\ catalog_file.some
    /\ catalog_file.val.rows = <<>>

\* the moves of an item
ItemSteps ==
    {<<"PENDING", "PARSED">>, <<"PARSED", "DOWNLOADED">>,
     <<"DOWNLOADED", "SPLIT">>, <<"DOWNLOADED", "SKIPPED">>,
     <<"SPLIT", "CLEANED">>, <<"SPLIT", "KEPT">>,
     <<"SKIPPED", "CLEANED">>, <<"SKIPPED", "KEPT">>}

AllTerminal == \A k \in DOMAIN item_state : item_state[k] \in Terminal

\* C9: every item moves PARSED -> DOWNLOADED -> SPLIT or SKIPPED -> CLEANED
\* or KEPT, one move at a time; only the download step raises; a completed
\* item is followed by the next item of the batch, which starts only then;
\* and the call eventually ends, either raised by a download or done with
\* every item CLEANED or KEPT, whatever bands are missing and whether or not
\* a removal failed.
C9_ItemsReachTerminal ==
    /\ [][/\ \A k \in DOMAIN item_state :
               \/ item_state'[k] = item_state[k]
               \/ <<item_state[k], item_state'[k]>> \in ItemSteps
          /\ pc' = "raised" => pc = "download"
          /\ \A k \in DOMAIN item_state :
               (item_state[k] \notin Terminal /\ item_state'[k] \in Terminal) =>
                  IF k < Len(batch)
                  THEN pc' = "parse" /\ i' = k + 1
                       /\ item_state'[k + 1] = "PENDING"
                  ELSE pc' = "catalog"]_vars
    /\ [](\A k \in DOMAIN item_state :
             item_state[k] # "PENDING" =>
                \A j \in 1..(k - 1) : item_state[j] \in Terminal)
    /\ <>(pc = "raised" \/ (pc = "done" /\ AllTerminal))
    /\ [](pc = "raised" => requested # <<>> /\ ~requested[Len(requested)].ok)

\* C9 witness: the first item had none of the five bands and its removal
\* failed, and the second item was processed to its end
C9_Witness ==
    /\ pc = "done"
    /\ batch = <<UrlD, UrlB>>
    /\ [item |-> 1, ok |-> FALSE] \in remove_calls
    /\ AllTerminal
    /\ catalog_entries.some
    /\ Len(catalog_entries.val) = 2
    /\ catalog_file = Some(Table(catalog_entries.val))

\* the (snapshot, subhalo, version) of batch item k
TripleOf(k) ==
    LET u == ParsedUrls[batch[k]]
    IN  <<u.snapshot, u.subhalo, u.version>>

\* C10 as claimed: any two distinct items of a batch write disjoint sets of
\* paths.
C10_PathsUnique ==
    \A j, k \in DOMAIN writes : j # k => writes[j] \cap writes[k] = {}

\* C10 amended: two items of a batch whose (snapshot, subhalo, version)
\* differ write disjoint sets of paths; two items with the same triple write
\* the same parent path.
C10_PathsUniquePerTriple ==
    \A j, k \in DOMAIN writes :
        /\ TripleOf(j) # TripleOf(k) => writes[j] \cap writes[k] = {}
        /\ (/\ TripleOf(j) = TripleOf(k)
            /\ item_state[j] \notin {"PENDING", "PARSED"}
            /\ item_state[k] \notin {"PENDING", "PARSED"})
              => ParentPathOf(j) \in writes[j] \cap writes[k]

\* C10 witness: two items that differ in the subhalo alone have both been
\* split, with parent and split files in one directory
C10_Witness ==
    /\ pc = "done"
    /\ batch = <<UrlA, UrlC>>
    /\ parent_dir = split_output_dir
    /\ Cardinality(writes[1]) = 6
    /\ Cardinality(writes[2]) = 2

\* the split path of an (item, band) pair
SplitPathOf(p) ==
    LET u == ParsedUrls[batch[p[1]]]
    IN  out_path(u.snapshot, u.subhalo, BANDS[p[2]], u.version)

\* the items before item k whose parent file has the parent path of item k
SameParentBefore(k, n) ==
    {j \in 1..(n - 1) : ParentPathOf(j) = ParentPathOf(k)}

\* C11: the catalog is stored only by the step that follows the last item of
\* a batch whose items have all completed, and its rows are accumulated in
\* memory until then.  When the download of item i raises, the call has
\* ended without any write of the catalog, although, when splitting is
\* performed, every split file of the items before i is on disk (and its rows
\* are accumulated when a catalog was requested), os.remove was called for
\* each of these items when remove_parent is true, and their parent files
\* are absent when these calls did not fail.
C11_CatalogOnlyAfterWholeBatch ==
    /\ [][(catalog_file' # catalog_file \/ catalog_writes' # catalog_writes) =>
            /\ pc = "catalog"
            /\ pc' = "done"
            /\ i = Len(batch)
            /\ AllTerminal
            /\ catalog_file' = Some(Table(catalog_entries.val))]_vars
    /\ [](pc = "raised" =>
            /\ catalog_file = NoneV
            /\ catalog_writes = 0
            /\ ~ENABLED Next
            /\ \A k \in 1..(i - 1) : item_state[k] \in Terminal
            /\ ~parent_file_only =>
                  LET pairs == FoundPairs(i - 1)
                  IN  /\ \A n \in 1..Len(pairs) :
                            /\ SplitPathOf(pairs[n]) \in DOMAIN fs
                            /\ SplitPathOf(pairs[n]) \in writes[pairs[n][1]]
                            /\ fs[SplitPathOf(pairs[n])]
                                  = <<target_ext(BANDS[pairs[n][2]])>>
                      /\ catalog_entries.some =>
                            /\ Len(catalog_entries.val) = Len(pairs)
                            /\ \A n \in 1..Len(pairs) :
                                  catalog_entries.val[n] = EntryOf(pairs[n])
                      /\ \A k \in 1..(i - 1) :
                            /\ (\E c \in remove_calls : c.item = k)
                                  <=> remove_parent
                            /\ (/\ remove_parent
                                /\ \A j \in SameParentBefore(k, i) \cup {k} :
                                      [item |-> j, ok |-> TRUE] \in remove_calls)
                                  => ParentPathOf(k) \notin DOMAIN fs)

\* C11 witness: the download of the second item has raised after the first
\* item was split into its five bands and its parent file removed; five
\* rows are accumulated and no catalog is stored
C11_Witness ==
    /\ pc = "raised"
    /\ i = 2
    /\ batch = <<UrlA, UrlC>>
    /\ Truthy(catalog_path)
    /\ remove_parent
    /\ ~parent_file_only
    /\ item_state = <<"CLEANED", "PARSED">>
    /\ PathJoin(split_output_dir, "72_0_G_v2_hsc_realistic.fits") \in DOMAIN fs
    /\ Cardinality(DOMAIN fs) = 5
    /\ ParentPathOf(1) \notin DOMAIN fs
    /\ catalog_entries.some
    /\ Len(catalog_entries.val) = 5
    /\ catalog_file = NoneV
    /\ catalog_writes = 0

====
